---- MODULE Spec2Model ----
(***************************************************************************)
(* RatDo: a terminal to-do list manager (src/src/todo.rs, src/src/main.rs).*)
(*                                                                         *)
(* The model follows the program: main() constructs the App, loads the     *)
(* persisted file, handles the command-line argument and enters run_app,   *)
(* whose loop draws the screen, reads one key and dispatches it on         *)
(* app.input_mode.  The App is one record with the fields of the struct;   *)
(* every method of App is an operator from App to App, every key handler   *)
(* of run_app is one action.                                               *)
(*                                                                         *)
(* Conventions                                                             *)
(*   - a String is a sequence of characters ("Default" is Default below);  *)
(*   - a Vec is a sequence; the program's indices are 0-based and kept so  *)
(*     (At, Remove, Insert, Swap take 0-based indices);                    *)
(*   - Option<usize> is a sequence of length at most one: None is <<>>,    *)
(*     Some(i) is <<i>>;                                                   *)
(*   - a DateTime<Local> is [utc, off]: the instant and the offset of the  *)
(*     local time zone at that instant;                                    *)
(*   - the persisted file is [exists, content]; content is the JSON        *)
(*     document of the file as a tree of tagged values (JStr, JBool, JArr, *)
(*     JObj), or JInvalid when the text is not JSON at all.                *)
(***************************************************************************)
EXTENDS Integers, Sequences, FiniteSets, TLC

(***************************************************************************)
(* Bounds of the model.                                                    *)
(***************************************************************************)
\* No page is created once the page list holds MaxPages pages.
MaxPages == 2
\* No item is added once the pages hold MaxTodos items in all.
MaxTodos == 3
\* No character is typed once the input buffer holds MaxInput characters.
MaxInput == 1

\* The characters the keyboard sends as KeyCode::Char(c) in Editing mode.
Alphabet == {"a"}
\* The instants Local::now() may return.
Instants == {0, 1}

VARIABLES
    app,     \* the App of main.rs:27, moved into run_app
    file,    \* ~/.config/ratdo/todos.json
    pc,      \* where main is: "load", "args", "run", "exit"
    exit     \* how main ended: "running", "ok", "ok_show", "ok_printed", "err", "panic"

vars == <<app, file, pc, exit>>

(***************************************************************************)
(* Vec and Option.                                                         *)
(***************************************************************************)
None == <<>>
Some(i) == <<i>>
unwrap_or(o, d) == IF o = None THEN d ELSE o[1]

At(s, i) == s[i + 1]
Push(s, x) == Append(s, x)
\* Vec::remove(i): the elements after i shift left; i < len is required.
Remove(s, i) == SubSeq(s, 1, i) \o SubSeq(s, i + 2, Len(s))
\* Vec::insert(i, x): the elements from i on shift right.
Insert(s, i, x) == SubSeq(s, 1, i) \o <<x>> \o SubSeq(s, i + 1, Len(s))
\* slice::swap(i, j); i, j < len is required.
Swap(s, i, j) == [k \in 1..Len(s) |-> IF k = i + 1 THEN s[j + 1]
                                      ELSE IF k = j + 1 THEN s[i + 1] ELSE s[k]]
\* String::pop: removes the last character, does nothing on "".
Pop(s) == IF s = <<>> THEN s ELSE SubSeq(s, 1, Len(s) - 1)

(***************************************************************************)
(* Todo, TodoPage, App::new.                                               *)
(***************************************************************************)
Default == <<"D", "e", "f", "a", "u", "l", "t">>

\* The offset of the local time zone at an instant (the zone of the process is
\* fixed; its offset depends on the instant, as with daylight saving time).
LocalOffset(utc) == 1 + (utc % 2)
\* Local::now() read at the instant utc.
LocalNow(utc) == [utc |-> utc, off |-> LocalOffset(utc)]

Todo_new(description, now) ==
    [description |-> description, completed |-> FALSE, created_at |-> now]

TodoPage_new(name) == [name |-> name, todos |-> <<>>]

App_new ==
    [pages |-> <<TodoPage_new(Default)>>,
     current_page_index |-> 0,
     state |-> Some(0),
     page_select_state |-> Some(0),
     input_mode |-> "Normal",
     current_input |-> <<>>,
     edit_mode |-> FALSE,
     picking_mode |-> FALSE,
     show_page_selector |-> FALSE]

current_page(a) == At(a.pages, a.current_page_index)
todos(a) == current_page(a).todos
\* todos_mut handing out the items of the first page.
with_todos_first_page(a, ts) == [a EXCEPT !.pages = [a.pages EXCEPT ![1].todos = ts]]

\* todos_mut: the App with the current page's items replaced by ts.
with_todos(a, ts) ==
    [a EXCEPT !.pages = [a.pages EXCEPT ![a.current_page_index + 1].todos = ts]]

\* The "Reset todo selection for the new page" block of select_page_by_name,
\* next_page, previous_page and the page-delete handler.
reset_selection(a) ==
    [a EXCEPT !.state = IF Len(todos(a)) > 0 THEN Some(0) ELSE None]

(***************************************************************************)
(* Page management.                                                        *)
(***************************************************************************)
name_taken(a, name) == \E k \in 1..Len(a.pages) : a.pages[k].name = name

\* Variants of add_page with one slip each.
add_page_index_past_end(a, name) ==
    IF name # <<>> /\ ~name_taken(a, name)
    THEN LET ps == Push(a.pages, TodoPage_new(name))
         IN  [a EXCEPT !.pages = ps,
                       !.current_page_index = Len(ps),
                       !.page_select_state = Some(Len(ps))]
    ELSE a
add_page_any_name(a, name) ==
    IF name # <<>>
    THEN LET ps == Push(a.pages, TodoPage_new(name))
         IN  [a EXCEPT !.pages = ps,
                       !.current_page_index = Len(ps) - 1,
                       !.page_select_state = Some(Len(ps) - 1)]
    ELSE a
add_page_not_current(a, name) ==
    IF name # <<>> /\ ~name_taken(a, name)
    THEN [a EXCEPT !.pages = Push(a.pages, TodoPage_new(name))]
    ELSE a

add_page(a, name) ==
    IF name # <<>> /\ ~name_taken(a, name)
    THEN LET ps == Push(a.pages, TodoPage_new(name))
         IN  [a EXCEPT !.pages = ps,
                       !.current_page_index = Len(ps) - 1,
                       !.page_select_state = Some(Len(ps) - 1)]
    ELSE a

\* select_page_by_name: the bool it returns, and the App it leaves.
\* (iter().position: the first 0-based index of a page of that name)
page_position(a, name) ==
    IF name_taken(a, name)
    THEN Some((CHOOSE k \in 1..Len(a.pages) :
                   /\ a.pages[k].name = name
                   /\ \A l \in 1..(k - 1) : a.pages[l].name # name) - 1)
    ELSE None
select_page_by_name(a, name) ==
    LET found == page_position(a, name)
    IN  IF found # None
        THEN reset_selection([a EXCEPT !.current_page_index = found[1],
                                       !.page_select_state = found])
        ELSE a

\* create_or_select_page without the lookup: a page of that name is never selected.
create_or_select_page_adds(a, name) == add_page(a, name)

create_or_select_page(a, name) ==
    IF page_position(a, name) # None
    THEN select_page_by_name(a, name)
    ELSE add_page(a, name)

next_page(a) ==
    IF a.pages # <<>>
    THEN LET i == IF a.page_select_state = None THEN 0
                  ELSE IF a.page_select_state[1] >= Len(a.pages) - 1 THEN 0
                  ELSE a.page_select_state[1] + 1
         IN  reset_selection([a EXCEPT !.current_page_index = i,
                                       !.page_select_state = Some(i)])
    ELSE a

previous_page(a) ==
    IF a.pages # <<>>
    THEN LET i == IF a.page_select_state = None THEN 0
                  ELSE IF a.page_select_state[1] = 0 THEN Len(a.pages) - 1
                  ELSE a.page_select_state[1] - 1
         IN  reset_selection([a EXCEPT !.current_page_index = i,
                                       !.page_select_state = Some(i)])
    ELSE a

toggle_page_selector(a) ==
    IF ~a.show_page_selector
    THEN [a EXCEPT !.show_page_selector = TRUE,
                   !.input_mode = "PageSelect",
                   !.page_select_state = Some(a.current_page_index)]
    ELSE [a EXCEPT !.show_page_selector = FALSE,
                   !.input_mode = "Normal"]

toggle_picking_mode(a) == [a EXCEPT !.picking_mode = ~a.picking_mode]

(***************************************************************************)
(* Item navigation and reordering.                                         *)
(***************************************************************************)
\* The target index of next(): the `let i = match self.state.selected()`.
next_index(a) ==
    IF a.state = None THEN 0
    ELSE IF a.state[1] >= Len(todos(a)) - 1 THEN 0
    ELSE a.state[1] + 1

\* next() indexes out of bounds (todos.swap(current, i) panics) when it swaps
\* from a selection that is not an index of the current page.
next_panics(a) ==
    LET ts == todos(a)
        i == next_index(a)
        current == unwrap_or(a.state, 0)
    IN  /\ ts # <<>>
        /\ a.picking_mode /\ i # current
        /\ Len(ts) > 1
        /\ ~(current = Len(ts) - 1 /\ i = 0)
        /\ (current >= Len(ts) \/ i >= Len(ts))

\* next() swapping on the wrap as it does elsewhere.
next_swaps_on_wrap(a) ==
    LET ts == todos(a)
        i == next_index(a)
        current == unwrap_or(a.state, 0)
    IN  IF ts = <<>> THEN a
        ELSE LET moved ==
                     IF a.picking_mode /\ i # current /\ Len(ts) > 1
                     THEN with_todos(a, Swap(ts, current, i))
                     ELSE a
             IN  [moved EXCEPT !.state = Some(i)]

next(a) ==
    LET ts == todos(a)
        i == next_index(a)
        current == unwrap_or(a.state, 0)
    IN  IF ts = <<>> THEN a
        ELSE LET moved ==
                     IF a.picking_mode /\ i # current /\ Len(ts) > 1
                     THEN IF current = Len(ts) - 1 /\ i = 0
                          THEN with_todos(a, Insert(Remove(ts, current), 0, At(ts, current)))
                          ELSE with_todos(a, Swap(ts, current, i))
                     ELSE a
             IN  [moved EXCEPT !.state = Some(i)]

\* The target index of previous().
previous_index(a) ==
    IF a.state = None THEN 0
    ELSE IF a.state[1] = 0 THEN Len(todos(a)) - 1
    ELSE a.state[1] - 1

previous_panics(a) ==
    LET ts == todos(a)
        i == previous_index(a)
        current == unwrap_or(a.state, 0)
    IN  /\ ts # <<>>
        /\ a.picking_mode /\ i # current
        /\ Len(ts) > 1
        /\ ~(current = 0 /\ i = Len(ts) - 1)
        /\ (current >= Len(ts) \/ i >= Len(ts))

\* previous() moving the selection without the item.
previous_leaves_item(a) ==
    LET ts == todos(a)
        i == previous_index(a)
        current == unwrap_or(a.state, 0)
    IN  IF ts = <<>> THEN a
        ELSE LET moved ==
                     IF a.picking_mode /\ i # current /\ Len(ts) > 1
                     THEN IF current = 0 /\ i = Len(ts) - 1
                          THEN with_todos(a, Push(Remove(ts, 0), At(ts, 0)))
                          ELSE a
                     ELSE a
             IN  [moved EXCEPT !.state = Some(i)]

\* previous() swapping on the wrap as it does elsewhere.
previous_swaps_on_wrap(a) ==
    LET ts == todos(a)
        i == previous_index(a)
        current == unwrap_or(a.state, 0)
    IN  IF ts = <<>> THEN a
        ELSE LET moved ==
                     IF a.picking_mode /\ i # current /\ Len(ts) > 1
                     THEN with_todos(a, Swap(ts, current, i))
                     ELSE a
             IN  [moved EXCEPT !.state = Some(i)]

previous(a) ==
    LET ts == todos(a)
        i == previous_index(a)
        current == unwrap_or(a.state, 0)
    IN  IF ts = <<>> THEN a
        ELSE LET moved ==
                     IF a.picking_mode /\ i # current /\ Len(ts) > 1
                     THEN IF current = 0 /\ i = Len(ts) - 1
                          THEN with_todos(a, Push(Remove(ts, 0), At(ts, 0)))
                          ELSE with_todos(a, Swap(ts, current, i))
                     ELSE a
             IN  [moved EXCEPT !.state = Some(i)]

(***************************************************************************)
(* Item operations.                                                        *)
(***************************************************************************)
\* add_todo putting the new item first.
add_todo_front(a, now) ==
    [with_todos(a, Insert(todos(a), 0, Todo_new(a.current_input, now)))
        EXCEPT !.current_input = <<>>]

\* add_todo; now is the Local::now() that Todo::new reads.
add_todo(a, now) ==
    [with_todos(a, Push(todos(a), Todo_new(a.current_input, now)))
        EXCEPT !.current_input = <<>>]

\* The guard `if let Some(selected) ... !todos.is_empty() && selected < todos.len()`
\* shared by delete_todo, toggle_todo, start_editing and update_todo.
selected_in_bounds(a) ==
    a.state # None /\ todos(a) # <<>> /\ a.state[1] < Len(todos(a))

delete_todo(a) ==
    IF selected_in_bounds(a)
    THEN LET selected == a.state[1]
             ts == Remove(todos(a), selected)
             removed == with_todos(a, ts)
         IN  IF selected > 0 /\ selected = Len(ts)
             THEN [removed EXCEPT !.state = Some(selected - 1)]
             ELSE removed
    ELSE a

\* toggle_todo up to its call of next(): the flag of the selected item flipped.
flip_selected(a) ==
    with_todos(a, [todos(a) EXCEPT ![a.state[1] + 1].completed = ~@])

toggle_todo_panics(a) ==
    /\ selected_in_bounds(a)
    /\ ~At(todos(a), a.state[1]).completed
    /\ next_panics(flip_selected(a))

\* toggle_todo calling next() on every toggle.
toggle_todo_always_advances(a) ==
    IF selected_in_bounds(a) THEN next(flip_selected(a)) ELSE a

toggle_todo(a) ==
    IF selected_in_bounds(a)
    THEN LET was_completed == At(todos(a), a.state[1]).completed
             flipped == flip_selected(a)
         IN  IF ~was_completed /\ At(todos(flipped), a.state[1]).completed
             THEN next(flipped)
             ELSE flipped
    ELSE a

start_editing(a) ==
    IF selected_in_bounds(a)
    THEN [a EXCEPT !.current_input = At(todos(a), a.state[1]).description,
                   !.input_mode = "Editing",
                   !.edit_mode = TRUE]
    ELSE a

update_todo(a) ==
    IF a.state # None
    THEN LET cleared == [a EXCEPT !.current_input = <<>>]
         IN  IF selected_in_bounds(a)
             THEN with_todos(cleared,
                      [todos(a) EXCEPT ![a.state[1] + 1].description = a.current_input])
             ELSE cleared
    ELSE a

(***************************************************************************)
(* Persistence: serde_json over Vec<TodoPage>, chrono's DateTime<Local>.   *)
(***************************************************************************)
JStr(s) == [j |-> "str", v |-> s]
JBool(b) == [j |-> "bool", v |-> b]
JArr(xs) == [j |-> "arr", v |-> xs]
JObj(fields) == [j |-> "obj", v |-> fields]
\* A file whose text is not a JSON document.
JInvalid == [j |-> "invalid", v |-> <<>>]

Digits == <<"0", "1", "2", "3", "4", "5", "6", "7", "8", "9">>
IsDigit(c) == \E n \in 1..Len(Digits) : Digits[n] = c
DigitValue(c) == (CHOOSE n \in 1..Len(Digits) : Digits[n] = c) - 1

\* chrono's Serialize for DateTime<Local>: the local wall-clock time followed
\* by the offset, as in "2024-05-01T10:00:00+02:00" (here one digit each).
\* The UTC time written where the local time belongs.
to_rfc3339_utc(dt) == <<Digits[dt.utc + 1], "+", Digits[dt.off + 1]>>
to_rfc3339(dt) == <<Digits[dt.utc + dt.off + 1], "+", Digits[dt.off + 1]>>
is_rfc3339(s) == Len(s) = 3 /\ IsDigit(s[1]) /\ s[2] = "+" /\ IsDigit(s[3])
\* chrono's Deserialize for DateTime<Local>: the text is parsed with its own
\* offset and the instant is then expressed in the local time zone.
from_rfc3339(s) == LocalNow(DigitValue(s[1]) - DigitValue(s[3]))

\* #[derive(Serialize)] of Todo and TodoPage.
ser_todo(t) ==
    JObj([description |-> JStr(t.description),
          completed |-> JBool(t.completed),
          created_at |-> JStr(to_rfc3339(t.created_at))])
ser_todos(ts) == JArr([k \in 1..Len(ts) |-> ser_todo(ts[k])])
ser_page(p) == JObj([name |-> JStr(p.name), todos |-> ser_todos(p.todos)])
\* serde_json::to_string(&self.pages)
to_string(ps) == JArr([k \in 1..Len(ps) |-> ser_page(ps[k])])

\* #[derive(Deserialize)] of Todo: an object with the three fields, each of
\* its type (fields it does not know are ignored).
is_todo(x) ==
    /\ x.j = "obj"
    /\ {"description", "completed", "created_at"} \subseteq DOMAIN x.v
    /\ x.v.description.j = "str"
    /\ x.v.completed.j = "bool"
    /\ x.v.created_at.j = "str"
    /\ is_rfc3339(x.v.created_at.v)
de_todo(x) ==
    [description |-> x.v.description.v,
     completed |-> x.v.completed.v,
     created_at |-> from_rfc3339(x.v.created_at.v)]
is_todos(x) == x.j = "arr" /\ \A k \in 1..Len(x.v) : is_todo(x.v[k])
de_todos(x) == [k \in 1..Len(x.v) |-> de_todo(x.v[k])]
\* #[derive(Deserialize)] of TodoPage.
is_page(x) ==
    /\ x.j = "obj"
    /\ {"name", "todos"} \subseteq DOMAIN x.v
    /\ x.v.name.j = "str"
    /\ is_todos(x.v.todos)
de_page(x) == [name |-> x.v.name.v, todos |-> de_todos(x.v.todos)]
\* serde_json::from_str::<Vec<TodoPage>>(&content) is Ok
is_pages(x) == x.j = "arr" /\ \A k \in 1..Len(x.v) : is_page(x.v[k])
de_pages(x) == [k \in 1..Len(x.v) |-> de_page(x.v[k])]

\* load_todos without the fallback to the old format.
parse_pages_no_legacy(content) ==
    IF is_pages(content) THEN de_pages(content)
    ELSE <<[name |-> Default, todos |-> <<>>]>>

\* The pages load_todos reads from the content of an existing file.
parse_pages(content) ==
    IF is_pages(content) THEN de_pages(content)
    ELSE LET old_todos == IF is_todos(content) THEN de_todos(content) ELSE <<>>
         IN  <<[name |-> Default, todos |-> old_todos]>>

\* load_todos without its "Ensure we have at least one page" step.
load_todos_keeps_empty(a, f) ==
    IF f.exists
    THEN LET ps == parse_pages(f.content)
             loaded == [a EXCEPT !.pages = ps]
             selected == IF ps # <<>> /\ ps[1].todos # <<>>
                         THEN [loaded EXCEPT !.state = Some(0)]
                         ELSE loaded
         IN  [selected EXCEPT !.page_select_state = Some(0),
                              !.current_page_index = 0]
    ELSE a

\* load_todos when no I/O error occurs.
load_todos(a, f) ==
    IF f.exists
    THEN LET read == parse_pages(f.content)
             ps == IF read = <<>> THEN <<TodoPage_new(Default)>> ELSE read
             loaded == [a EXCEPT !.pages = ps]
             selected == IF todos(loaded) # <<>>
                         THEN [loaded EXCEPT !.state = Some(0)]
                         ELSE loaded
         IN  [selected EXCEPT !.page_select_state = Some(0),
                              !.current_page_index = 0]
    ELSE a

\* The file save_todos writes when no I/O error occurs.
save_todos(a) == [exists |-> TRUE, content |-> to_string(a.pages)]

page_names(a) == [k \in 1..Len(a.pages) |-> a.pages[k].name]

(***************************************************************************)
(* ui: the frame drawn at the top of every iteration of run_app.  It reads *)
(* the App; render_stateful_widget is handed &mut app.state (and           *)
(* &mut app.page_select_state while the selector is shown), and the List   *)
(* widget, when the terminal leaves it an area, brings a selection that is *)
(* not an index of its items back into range: none for an empty list, the  *)
(* last item otherwise.                                                    *)
(***************************************************************************)
render_list(n, selected) ==
    IF n = 0 THEN None
    ELSE IF selected # None /\ selected[1] >= n THEN Some(n - 1)
    ELSE selected

ui(a) ==
    [a EXCEPT !.state = render_list(Len(todos(a)), a.state),
              !.page_select_state =
                  IF a.show_page_selector
                  THEN render_list(Len(a.pages), a.page_select_state)
                  ELSE a.page_select_state]

(***************************************************************************)
(* The key handlers of run_app, one operator per match arm.                *)
(***************************************************************************)
normal_e(a) == IF todos(a) # <<>> THEN start_editing(a) ELSE a

normal_a(a) ==
    [a EXCEPT !.input_mode = "Editing", !.edit_mode = FALSE, !.current_input = <<>>]

normal_p(a) == IF todos(a) # <<>> THEN toggle_picking_mode(a) ELSE a

\* Which branch Enter takes in Editing mode.
enter_branch(a) ==
    IF a.show_page_selector /\ a.current_input # <<>> THEN "add_page"
    ELSE IF a.edit_mode /\ a.current_input # <<>> THEN "update_todo"
    ELSE IF a.current_input # <<>> THEN "add_todo"
    ELSE "none"

\* Enter leaving the mode only from inside a branch of the if chain.
editing_enter_stays(a, now) ==
    CASE enter_branch(a) = "add_page" ->
             [add_page(a, a.current_input)
                 EXCEPT !.current_input = <<>>,
                        !.show_page_selector = FALSE,
                        !.input_mode = "Normal",
                        !.edit_mode = FALSE]
      [] enter_branch(a) = "update_todo" ->
             [update_todo(a) EXCEPT !.input_mode = "Normal", !.edit_mode = FALSE]
      [] enter_branch(a) = "add_todo" ->
             [add_todo(a, now) EXCEPT !.input_mode = "Normal", !.edit_mode = FALSE]
      [] OTHER -> a

editing_enter(a, now) ==
    LET done ==
            CASE enter_branch(a) = "add_page" ->
                     [add_page(a, a.current_input)
                         EXCEPT !.current_input = <<>>,
                                !.show_page_selector = FALSE,
                                !.input_mode = "Normal"]
              [] enter_branch(a) = "update_todo" -> update_todo(a)
              [] enter_branch(a) = "add_todo" -> add_todo(a, now)
              [] OTHER -> a
    IN  [done EXCEPT !.input_mode = "Normal", !.edit_mode = FALSE]

editing_char(a, c) == [a EXCEPT !.current_input = Append(a.current_input, c)]

editing_backspace(a) == [a EXCEPT !.current_input = Pop(a.current_input)]

editing_esc(a) ==
    [a EXCEPT !.input_mode = "Normal", !.edit_mode = FALSE, !.show_page_selector = FALSE]

pageselect_enter(a) ==
    IF a.page_select_state # None
    THEN [a EXCEPT !.current_page_index = a.page_select_state[1],
                   !.show_page_selector = FALSE,
                   !.input_mode = "Normal"]
    ELSE a

pageselect_new(a) ==
    [a EXCEPT !.input_mode = "Editing", !.edit_mode = FALSE, !.current_input = <<>>]

\* The last page replaced by a new Default page instead of kept.
pageselect_d_recreates(a) ==
    IF a.page_select_state # None
    THEN IF Len(a.pages) > 1
         THEN LET selected == a.page_select_state[1]
                  ps == Remove(a.pages, selected)
                  sel == IF selected >= Len(ps) THEN Some(Len(ps) - 1) ELSE Some(selected)
              IN  reset_selection([a EXCEPT !.pages = ps,
                                            !.page_select_state = sel,
                                            !.current_page_index = unwrap_or(sel, 0)])
         ELSE [a EXCEPT !.pages = <<TodoPage_new(Default)>>, !.state = None]
    ELSE a
\* The current page removed instead of the highlighted one.
pageselect_d_current(a) ==
    IF Len(a.pages) > 1 /\ a.page_select_state # None
    THEN LET selected == a.page_select_state[1]
             ps == Remove(a.pages, a.current_page_index)
             sel == IF selected >= Len(ps) THEN Some(Len(ps) - 1) ELSE Some(selected)
         IN  reset_selection([a EXCEPT !.pages = ps,
                                       !.page_select_state = sel,
                                       !.current_page_index = unwrap_or(sel, 0)])
    ELSE a

pageselect_d(a) ==
    IF Len(a.pages) > 1 /\ a.page_select_state # None
    THEN LET selected == a.page_select_state[1]
             ps == Remove(a.pages, selected)
             sel == IF selected >= Len(ps) THEN Some(Len(ps) - 1) ELSE Some(selected)
         IN  reset_selection([a EXCEPT !.pages = ps,
                                       !.page_select_state = sel,
                                       !.current_page_index = unwrap_or(sel, 0)])
    ELSE a

pageselect_down(a) ==
    IF a.pages # <<>>
    THEN LET i == IF a.page_select_state = None THEN 0
                  ELSE IF a.page_select_state[1] >= Len(a.pages) - 1 THEN 0
                  ELSE a.page_select_state[1] + 1
         IN  [a EXCEPT !.page_select_state = Some(i)]
    ELSE a

pageselect_up(a) ==
    IF a.pages # <<>>
    THEN LET i == IF a.page_select_state = None THEN 0
                  ELSE IF a.page_select_state[1] = 0 THEN Len(a.pages) - 1
                  ELSE a.page_select_state[1] - 1
         IN  [a EXCEPT !.page_select_state = Some(i)]
    ELSE a

pageselect_esc(a) == [a EXCEPT !.show_page_selector = FALSE, !.input_mode = "Normal"]

(***************************************************************************)
(* The environment: the file found at startup, the command line.           *)
(***************************************************************************)
Show == <<"s", "h", "o", "w">>
\* args[1], when there is one.
CliArgs == {None, Some(Show), Some(<<"a">>), Some(<<>>)}

NoFile == [exists |-> FALSE, content |-> JInvalid]
FileOf(content) == [exists |-> TRUE, content |-> content]
\* An item as a version of the program running in the zone of offset off wrote it.
ItemDoc(description, completed, wall, off) ==
    JObj([description |-> JStr(description),
          completed |-> JBool(completed),
          created_at |-> JStr(<<Digits[wall + 1], "+", Digits[off + 1]>>)])
PageDoc(name, items) == JObj([name |-> JStr(name), todos |-> JArr(items)])

\* The files found at startup: none; a flat array of two items, as the version
\* of the program without pages wrote it (one of them while running in another
\* time zone); a page A holding one item and an empty page a.
FileKinds == {"absent", "legacy", "pages"}
InitialFile(kind) ==
    CASE kind = "absent" -> NoFile
      [] kind = "legacy" ->
             FileOf(JArr(<<ItemDoc(<<"a">>, FALSE, 1, 1), ItemDoc(<<"a">>, TRUE, 1, 0)>>))
      [] kind = "pages" ->
             FileOf(JArr(<<PageDoc(<<"A">>, <<ItemDoc(<<"a">>, TRUE, 3, 2)>>),
                           PageDoc(<<"a">>, <<>>)>>))

(***************************************************************************)
(* main and run_app.                                                       *)
(***************************************************************************)
Init ==
    /\ app = App_new
    /\ \E kind \in FileKinds : file = InitialFile(kind)
    /\ pc = "load"
    /\ exit = "running"

\* main.rs:28  app.load_todos()?
Load ==
    /\ pc = "load"
    /\ \E io \in {"ok", "err"} :
           IF io = "ok"
           THEN app' = load_todos(app, file) /\ pc' = "args" /\ exit' = exit
           ELSE app' = app /\ pc' = "exit" /\ exit' = "err"
    /\ file' = file

\* main.rs:31-47  the command-line argument
Args ==
    /\ pc = "args"
    /\ \E arg \in CliArgs :
           IF arg = None
           THEN app' = app /\ pc' = "run" /\ exit' = exit
           ELSE IF arg[1] = Show
           THEN app' = app /\ pc' = "exit" /\ exit' = "ok_show"
           ELSE /\ Len(create_or_select_page(app, arg[1]).pages) <= MaxPages
                /\ app' = create_or_select_page(app, arg[1])
                /\ pc' = "run" /\ exit' = exit
    /\ file' = file

\* main.rs:76  terminal.draw(|f| ui(f, &mut app)).  Every iteration of the loop
\* draws before it reads a key; a draw that leaves the App as it is (the
\* selections are in range, or the lists have no area) is a stuttering step, so
\* the action is the draw that changes it.
Draw ==
    /\ pc = "run"
    /\ ui(app) # app
    /\ app' = ui(app)
    /\ UNCHANGED <<file, pc, exit>>

\* The number of items of all pages.
RECURSIVE TotalTodos(_)
TotalTodos(ps) ==
    IF ps = <<>> THEN 0 ELSE Len(ps[1].todos) + TotalTodos(Tail(ps))

\* A handler followed by a save of the App it leaves.
Handled_autosave(mode, a) ==
    /\ pc = "run"
    /\ app.input_mode = mode
    /\ app' = a
    /\ file' = save_todos(a)
    /\ UNCHANGED <<pc, exit>>

\* A handler that returns to the top of the loop with the App it leaves.
Handled(mode, a) ==
    /\ pc = "run"
    /\ app.input_mode = mode
    /\ app' = a
    /\ UNCHANGED <<file, pc, exit>>

\* A handler that panics: the process ends there.
Panicked(mode) ==
    /\ pc = "run"
    /\ app.input_mode = mode
    /\ pc' = "exit"
    /\ exit' = "panic"
    /\ UNCHANGED <<app, file>>

\* main returning the error of run_app instead of printing it.
Normal_q_propagates ==
    /\ pc = "run"
    /\ app.input_mode = "Normal"
    /\ \E io \in {"ok", "path", "dir", "open", "write"} :
           /\ file' = IF io = "ok" THEN save_todos(app)
                      ELSE IF io = "write" THEN FileOf(JInvalid)
                      ELSE file
           /\ exit' = IF io = "ok" THEN "ok" ELSE "err"
    /\ pc' = "exit"
    /\ app' = app

\* main.rs:82-85, 56-71: save_todos()?; the error, if any, is printed by main,
\* which returns Ok(()) either way.  io is where save_todos fails, if it does:
\* before the file is opened ("path", "dir", "open") or while it is written.
Normal_q ==
    /\ pc = "run"
    /\ app.input_mode = "Normal"
    /\ \E io \in {"ok", "path", "dir", "open", "write"} :
           /\ file' = IF io = "ok" THEN save_todos(app)
                      ELSE IF io = "write" THEN FileOf(JInvalid)
                      ELSE file
           /\ exit' = IF io = "ok" THEN "ok" ELSE "ok_printed"
    /\ pc' = "exit"
    /\ app' = app

Normal_e == Handled("Normal", normal_e(app))
Normal_a == Handled("Normal", normal_a(app))
Normal_d == Handled("Normal", delete_todo(app))
Normal_space ==
    IF toggle_todo_panics(app) THEN Panicked("Normal")
    ELSE Handled("Normal", toggle_todo(app))
Normal_p == Handled("Normal", normal_p(app))
Normal_P == Handled("Normal", toggle_page_selector(app))
Normal_Tab == Handled("Normal", next_page(app))
Normal_BackTab == Handled("Normal", previous_page(app))
Normal_Down ==
    IF next_panics(app) THEN Panicked("Normal") ELSE Handled("Normal", next(app))
Normal_Up ==
    IF previous_panics(app) THEN Panicked("Normal") ELSE Handled("Normal", previous(app))

Editing_Enter ==
    \E now \in Instants :
        /\ Len(editing_enter(app, LocalNow(now)).pages) <= MaxPages
        /\ TotalTodos(editing_enter(app, LocalNow(now)).pages) <= MaxTodos
        /\ Handled("Editing", editing_enter(app, LocalNow(now)))
Editing_Char ==
    /\ Len(app.current_input) < MaxInput
    /\ \E c \in Alphabet : Handled("Editing", editing_char(app, c))
Editing_Backspace == Handled("Editing", editing_backspace(app))
Editing_Esc == Handled("Editing", editing_esc(app))

PageSelect_Enter == Handled("PageSelect", pageselect_enter(app))
PageSelect_new == Handled("PageSelect", pageselect_new(app))
PageSelect_d == Handled("PageSelect", pageselect_d(app))
PageSelect_Down == Handled("PageSelect", pageselect_down(app))
PageSelect_Up == Handled("PageSelect", pageselect_up(app))
PageSelect_Esc == Handled("PageSelect", pageselect_esc(app))

Next ==
    \/ Load \/ Args \/ Draw
    \/ Normal_q \/ Normal_e \/ Normal_a \/ Normal_d \/ Normal_space \/ Normal_p
    \/ Normal_P \/ Normal_Tab \/ Normal_BackTab \/ Normal_Down \/ Normal_Up
    \/ Editing_Enter \/ Editing_Char \/ Editing_Backspace \/ Editing_Esc
    \/ PageSelect_Enter \/ PageSelect_new \/ PageSelect_d
    \/ PageSelect_Down \/ PageSelect_Up \/ PageSelect_Esc

Spec == Init /\ [][Next]_vars

\* The program started with no persisted file: the default state.
InitFresh == Init /\ file = NoFile
SpecFresh == InitFresh /\ [][Next]_vars

\* The program started on any of a larger family of files and left by the quit
\* key at once: what load_todos makes of a file, and what save_todos writes back.
ItemDocs ==
    {ItemDoc(d, c, z[1], z[2]) :
        d \in {<<"a">>, <<"A">>}, c \in BOOLEAN, z \in {<<1, 1>>, <<1, 0>>, <<3, 2>>}}
ItemArrays == UNION {[1..n -> ItemDocs] : n \in 0..MaxTodos}
PageDocs ==
    {PageDoc(nm, items) :
        nm \in {Default, <<"a">>, <<>>},
        items \in UNION {[1..n -> ItemDocs] : n \in 0..1}}
PageArrays == UNION {[1..n -> PageDocs] : n \in 0..MaxPages}
\* An item without its created_at, and one whose created_at is no date.
BrokenItemDocs ==
    {JObj([description |-> JStr(<<"a">>), completed |-> JBool(FALSE)]),
     JObj([description |-> JStr(<<"a">>), completed |-> JBool(FALSE),
           created_at |-> JStr(<<"a">>)])}
InitStore ==
    /\ app = App_new
    /\ pc = "load"
    /\ exit = "running"
    /\ \/ file = NoFile
       \/ file = FileOf(JInvalid)
       \/ file = FileOf(JObj([name |-> JStr(Default)]))
       \/ \E items \in ItemArrays : file = FileOf(JArr(items))
       \/ \E ps \in PageArrays : file = FileOf(JArr(ps))
       \/ \E good \in ItemDocs, bad \in BrokenItemDocs : file = FileOf(JArr(<<good, bad>>))
NextStore == Load \/ Args \/ Draw \/ Normal_q
SpecStore == InitStore /\ [][NextStore]_vars

\* The program started on a file of two pages, A holding three items and a
\* holding two: a selection on the third item of A is no index of page a.
PickFile ==
    FileOf(JArr(<<PageDoc(<<"A">>, <<ItemDoc(<<"a">>, FALSE, 1, 1),
                                    ItemDoc(<<"a">>, FALSE, 1, 0),
                                    ItemDoc(<<"a">>, FALSE, 3, 2)>>),
                  PageDoc(<<"a">>, <<ItemDoc(<<"a">>, FALSE, 1, 1),
                                    ItemDoc(<<"a">>, FALSE, 1, 0)>>)>>))
InitPick ==
    /\ app = App_new
    /\ file = PickFile
    /\ pc = "load"
    /\ exit = "running"
SpecPick == InitPick /\ [][Next]_vars

(***************************************************************************)
(* Properties.                                                             *)
(***************************************************************************)
Min(x, y) == IF x <= y THEN x ELSE y
Distinct(ts) == \A k, l \in 1..Len(ts) : k # l => ts[k] # ts[l]
Running(mode) == pc = "run" /\ app.input_mode = mode

\* C1: in every state reachable from startup the page list is not empty and
\* current_page_index is less than the number of pages.
C1_PagesNonEmptyIndexValid ==
    /\ Len(app.pages) >= 1
    /\ app.current_page_index \in 0..(Len(app.pages) - 1)

\* A page was created and the Default page deleted: one page a is left.
C1_Witness ==
    /\ pc = "run" /\ ~file.exists
    /\ Len(app.pages) = 1 /\ app.pages[1].name = <<"a">>
    /\ app.current_page_index = 0

\* C2: in every reachable state the item selection is Some(i) with i less than
\* the number of items of the current page when that page has items, and None
\* when it has none.  Stated here for the states in which the event loop waits
\* for a key with the frame drawn (the selection as the List widget left it);
\* the states before the first draw break it as well, App::new selecting 0 on
\* the empty Default page.
C2_SelectionMatchesPage ==
    (pc = "run" /\ ui(app) = app) =>
        IF todos(app) # <<>>
        THEN app.state # None /\ app.state[1] < Len(todos(app))
        ELSE app.state = None

\* C3: from the default state on, every page name is non-empty and no two pages
\* have the same name.
C3_NamesNonEmptyUnique ==
    /\ \A k \in 1..Len(app.pages) : app.pages[k].name # <<>>
    /\ \A k, l \in 1..Len(app.pages) : k # l => app.pages[k].name # app.pages[l].name

\* Two pages, the second created by the user and holding items.
C3_Witness ==
    /\ pc = "run" /\ Len(app.pages) = 2
    /\ app.pages[2].name = <<"a">> /\ app.pages[2].todos # <<>>

\* C4: with picking_mode on and n >= 2 items, 'next' from the last index moves
\* the selected item to position 0, the others shifting back by one in their
\* order, and selects 0; 'previous' from index 0 moves the selected item to the
\* last position, the others shifting forward by one in their order, and
\* selects n - 1.  With three or more items, the first two differing, the
\* outcome is not that of exchanging the first and the last.
C4_Step ==
    LET ts == todos(app)
        n == Len(ts)
        exchanged == [k \in 1..n |-> IF k = 1 THEN ts[n] ELSE IF k = n THEN ts[1] ELSE ts[k]]
    IN  /\ (Normal_Down /\ app.picking_mode /\ n >= 2 /\ app.state = Some(n - 1))
               => /\ pc' = "run"
                  /\ Len(todos(app')) = n
                  /\ todos(app')[1] = ts[n]
                  /\ \A k \in 2..n : todos(app')[k] = ts[k - 1]
                  /\ app'.state = Some(0)
                  /\ (n >= 3 /\ ts[1] # ts[2]) => todos(app') # exchanged
        /\ (Normal_Up /\ app.picking_mode /\ n >= 2 /\ app.state = Some(0))
               => /\ pc' = "run"
                  /\ Len(todos(app')) = n
                  /\ todos(app')[n] = ts[1]
                  /\ \A k \in 1..(n - 1) : todos(app')[k] = ts[k + 1]
                  /\ app'.state = Some(n - 1)
                  /\ (n >= 3 /\ ts[n] # ts[n - 1]) => todos(app') # exchanged
C4_WrapRelocates == [][C4_Step]_vars

\* Three different items, the last selected, picking_mode on.
C4_Witness ==
    /\ Running("Normal") /\ app.picking_mode
    /\ Len(todos(app)) = 3 /\ Distinct(todos(app))
    /\ app.state = Some(2)

\* C5: with picking_mode on, n >= 2 items and a valid selection s, a 'next'
\* with s < n - 1 or a 'previous' with s > 0 exchanges the items at s and at the
\* target index, leaves every other position as it is and selects the target.
C5_Exchanged(ts, s, t, after) ==
    /\ Len(after) = Len(ts)
    /\ \A k \in 1..Len(ts) :
           after[k] = IF k = s + 1 THEN ts[t + 1] ELSE IF k = t + 1 THEN ts[s + 1] ELSE ts[k]
C5_Step ==
    LET ts == todos(app)
        n == Len(ts)
        s == app.state[1]
    IN  (app.picking_mode /\ n >= 2 /\ app.state # None /\ s < n) =>
            /\ (Normal_Down /\ s < n - 1)
                   => /\ pc' = "run"
                      /\ C5_Exchanged(ts, s, s + 1, todos(app'))
                      /\ app'.state = Some(s + 1)
                      /\ At(todos(app'), s + 1) = At(ts, s)
            /\ (Normal_Up /\ s > 0)
                   => /\ pc' = "run"
                      /\ C5_Exchanged(ts, s, s - 1, todos(app'))
                      /\ app'.state = Some(s - 1)
                      /\ At(todos(app'), s - 1) = At(ts, s)
C5_NonWrapSwaps == [][C5_Step]_vars

\* Three different items, the middle one selected, picking_mode on.
C5_Witness ==
    /\ Running("Normal") /\ app.picking_mode
    /\ Len(todos(app)) = 3 /\ Distinct(todos(app))
    /\ app.state = Some(1)

\* C6: add_page(name) changes the page list exactly when name is non-empty and
\* differs from every page name; it then appends one empty page of that name
\* and makes it current, the pages before it unchanged; otherwise the page list
\* and current_page_index stay as they are.  add_page is called by Enter in the
\* page-creation sub-mode and by the command-line argument naming no page.
C6_AddPage(before, name, after) ==
    IF name # <<>> /\ \A k \in 1..Len(before.pages) : before.pages[k].name # name
    THEN /\ after.pages = Append(before.pages, [name |-> name, todos |-> <<>>])
         /\ after.current_page_index = Len(before.pages)
    ELSE /\ after.pages = before.pages
         /\ after.current_page_index = before.current_page_index
C6_Step ==
    /\ (Editing_Enter /\ app.show_page_selector /\ app.current_input # <<>>)
           => pc' = "run" /\ C6_AddPage(app, app.current_input, app')
    /\ \A arg \in CliArgs \ {None, Some(Show)} :
           (/\ pc = "args" /\ pc' = "run"
            /\ \A k \in 1..Len(app.pages) : app.pages[k].name # arg[1]
            /\ app' = create_or_select_page(app, arg[1]))
               => C6_AddPage(app, arg[1], app')
C6_AddPageIffNewName == [][C6_Step]_vars

\* The name of an existing page typed in the page-creation sub-mode.
C6_Witness ==
    /\ Running("Editing") /\ app.show_page_selector
    /\ app.current_input = <<"a">>
    /\ Len(app.pages) = 2 /\ app.pages[2].name = <<"a">>

\* C7: in PageSelect mode with one page, the 'delete page' key leaves the whole
\* state as it is.
C7_Step == (PageSelect_d /\ Len(app.pages) = 1) => UNCHANGED vars
C7_LastPageKept == [][C7_Step]_vars

\* The page selector open on a single page that is not the Default page.
C7_Witness ==
    /\ Running("PageSelect")
    /\ Len(app.pages) = 1 /\ app.pages[1].name # Default

\* C8: in PageSelect mode the selector index p is an index of the page list;
\* with k >= 2 pages, 'delete page' removes the page at p and no other, the
\* selector index becomes min(p, k - 2), current_page_index equals it, and the
\* item selection is 0 if the page then current has items and none otherwise.
C8_Step ==
    LET k == Len(app.pages)
        p == app.page_select_state[1]
        q == Min(p, k - 2)
    IN  /\ Running("PageSelect") => app.page_select_state # None /\ p \in 0..(k - 1)
        /\ (PageSelect_d /\ k >= 2)
               => /\ pc' = "run"
                  /\ Len(app'.pages) = k - 1
                  /\ \A i \in 1..(k - 1) :
                         app'.pages[i] = IF i <= p THEN app.pages[i] ELSE app.pages[i + 1]
                  /\ app'.page_select_state = Some(q)
                  /\ app'.current_page_index = q
                  /\ app'.state = IF app'.pages[q + 1].todos # <<>> THEN Some(0) ELSE None
C8_DeletesSelectedPage == [][C8_Step]_vars

\* The selector on the second of two pages while the first is current, both
\* holding items.
C8_Witness ==
    /\ Running("PageSelect")
    /\ Len(app.pages) = 2
    /\ app.page_select_state = Some(1) /\ app.current_page_index = 0
    /\ app.pages[1].todos # <<>> /\ app.pages[2].todos # <<>>

\* C9: the file a successful save writes is read back by load, in a new App, as
\* the page list that was saved: the same pages in the same order, each with its
\* name and its items, every item with its description, flag and created_at.
C9_SaveLoadRoundTrip ==
    (pc = "exit" /\ exit = "ok") => load_todos(App_new, file).pages = app.pages

\* Saved: two pages holding three items, one of them completed.
C9_Witness ==
    /\ pc = "exit" /\ exit = "ok"
    /\ Len(app.pages) = 2 /\ TotalTodos(app.pages) = 3
    /\ \E k \in 1..2 : \E l \in 1..Len(app.pages[k].todos) : app.pages[k].todos[l].completed
    /\ \E k \in 1..2 : \E l \in 1..Len(app.pages[k].todos) : ~app.pages[k].todos[l].completed

\* C10: loading a file that holds a flat array of items yields one page, named
\* Default, holding those items in their order, and current_page_index 0.
\* (The instant of a created_at text is its wall-clock time less its offset.)
LegacyItem(x) ==
    /\ x.j = "obj" /\ DOMAIN x.v = {"description", "completed", "created_at"}
    /\ x.v.description.j = "str" /\ x.v.completed.j = "bool" /\ x.v.created_at.j = "str"
    /\ Len(x.v.created_at.v) = 3
LegacyFile(f) ==
    f.exists /\ f.content.j = "arr" /\ \A k \in 1..Len(f.content.v) : LegacyItem(f.content.v[k])
C10_LegacyLoad ==
    (pc = "args" /\ LegacyFile(file)) =>
        /\ Len(app.pages) = 1
        /\ app.pages[1].name = Default
        /\ app.current_page_index = 0
        /\ Len(app.pages[1].todos) = Len(file.content.v)
        /\ \A k \in 1..Len(file.content.v) :
               LET doc == file.content.v[k].v
                   todo == app.pages[1].todos[k]
               IN  /\ todo.description = doc.description.v
                   /\ todo.completed = doc.completed.v
                   /\ todo.created_at.utc =
                          DigitValue(doc.created_at.v[1]) - DigitValue(doc.created_at.v[3])

\* Loaded: a flat array of three items, the second written in another zone.
C10_Witness ==
    /\ pc = "args" /\ LegacyFile(file)
    /\ Len(file.content.v) = 3
    /\ file.content.v[2].v.created_at.v[3] = "0"
    /\ file.content.v[1] # file.content.v[3]
    /\ Len(app.pages[1].todos) = 3

\* C11: toggling the selected item of a Normal-mode state, with picking_mode on
\* or off, leaves it at its position with its flag flipped and every other item
\* as it was (only the selection may advance, on the false-to-true transition);
\* toggling the item at that position again restores the page.
C11_ToggleTwice ==
    (Running("Normal") /\ selected_in_bounds(app)) =>
        LET s == app.state[1]
            once == toggle_todo(app)
            twice == toggle_todo([once EXCEPT !.state = Some(s)])
        IN  /\ todos(once) = [todos(app) EXCEPT ![s + 1].completed = ~@]
            /\ todos(twice) = todos(app)
            /\ once.state \in {Some(s), Some((s + 1) % Len(todos(app)))}
            /\ At(todos(app), s).completed => once.state = Some(s)

C13_Step ==
    Editing_Esc =>
        /\ pc' = "run"
        /\ app'.input_mode = "Normal"
        /\ app'.current_input = <<>>
        /\ ~app'.show_page_selector
        /\ ~app'.edit_mode
        /\ app'.pages = app.pages
C13_EscDiscards == [][C13_Step]_vars

\* C14: the persisted file changes only in a step of the quit key in Normal
\* mode (the step that ends the event loop with main returning Ok): no other
\* key in any mode, and neither load nor the command-line argument, changes it.
C14_Step ==
    file' # file =>
        /\ Running("Normal")
        /\ pc' = "exit" /\ exit' \in {"ok", "ok_printed"}
        /\ app' = app
C14_OnlyQuitWrites == [][C14_Step]_vars

\* The program started without a file, a second page and three items were
\* created, the selector is open: still no file.
C14_Witness ==
    /\ Running("PageSelect") /\ ~file.exists
    /\ Len(app.pages) = 2 /\ TotalTodos(app.pages) = 3

\* C15: the quit key ends the event loop whether the save succeeds or fails, and
\* main returns Ok either way; when the file is not left as a successful save
\* leaves it, the error has been printed.
C15_Step ==
    Normal_q =>
        /\ pc' = "exit"
        /\ exit' \in {"ok", "ok_printed"}
        /\ file' # save_todos(app) => exit' = "ok_printed"
        /\ exit' = "ok" => file' = save_todos(app)
C15_QuitExitsOk == [][C15_Step]_vars

\* The save failed while writing: the file is cut short, the error was printed
\* and main returned Ok.
C15_Witness ==
    /\ pc = "exit" /\ exit = "ok_printed"
    /\ file = FileOf(JInvalid)
    /\ TotalTodos(app.pages) >= 1

\* C16: for a non-empty name given on the command line, after
\* create_or_select_page(name) the current page is the page named name, the
\* number of pages has grown by one if no page had that name and is unchanged
\* otherwise, and the pages there were keep their content and their order.
C16_Step ==
    \A arg \in CliArgs \ {None, Some(Show), Some(<<>>)} :
        (pc = "args" /\ pc' = "run" /\ app' = create_or_select_page(app, arg[1])) =>
            LET name == arg[1]
                had == \E k \in 1..Len(app.pages) : app.pages[k].name = name
            IN  /\ app'.current_page_index \in 0..(Len(app'.pages) - 1)
                /\ app'.pages[app'.current_page_index + 1].name = name
                /\ Len(app'.pages) = Len(app.pages) + (IF had THEN 0 ELSE 1)
                /\ \A k \in 1..Len(app.pages) : app'.pages[k] = app.pages[k]
C16_CreateOrSelect == [][C16_Step]_vars

\* The file held two pages, the second the one named on the command line: it
\* was selected, not created.
C16_Witness ==
    /\ pc = "run" /\ file.exists /\ is_pages(file.content)
    /\ Len(file.content.v) = 2
    /\ Len(app.pages) = 2 /\ app.pages[1].name = Default /\ app.pages[2].name = <<"a">>
    /\ app.current_page_index = 1

\* C17: load, when it meets no I/O error, leaves at least one page; and it
\* leaves exactly one empty page named Default when there is no file and when
\* the content of the file is neither an array of pages nor an array of items.
C17_LoadFallback ==
    pc = "args" =>
        /\ Len(app.pages) >= 1
        /\ (~file.exists \/ (~is_pages(file.content) /\ ~is_todos(file.content)))
               => app.pages = <<[name |-> Default, todos |-> <<>>]>>

\* Loaded: an array of two items, the second of them broken.
C17_Witness ==
    /\ pc = "args" /\ file.exists
    /\ file.content.j = "arr" /\ Len(file.content.v) = 2
    /\ is_todo(file.content.v[1]) /\ ~is_todo(file.content.v[2])
    /\ Len(app.pages) = 1

\* C18: in Normal mode on a page of k >= 1 items with the selection on an item
\* s, the delete key removes the item at s and no other, the rest keeping their
\* order, and leaves the selection at s - 1 if s was the last index and s > 0,
\* at none if the page became empty, and at s otherwise.
C18_Delete ==
    (Running("Normal") /\ selected_in_bounds(app)) =>
        LET ts == todos(app)
            k == Len(ts)
            s == app.state[1]
            after == delete_todo(app)
        IN  /\ Len(todos(after)) = k - 1
            /\ \A i \in 1..(k - 1) :
                   todos(after)[i] = IF i <= s THEN ts[i] ELSE ts[i + 1]
            /\ after.state = IF k = 1 THEN None
                             ELSE IF s = k - 1 /\ s > 0 THEN Some(s - 1)
                             ELSE Some(s)

\* C19: in every Normal-mode state with n pages and current_page_index c,
\* next_page makes (c + 1) mod n current and previous_page (c - 1 + n) mod n,
\* and both leave the item selection at 0 if the page then current has items
\* and at none otherwise.
C19_PageStep(after, target) ==
    /\ after.current_page_index = target
    /\ after.state = IF app.pages[target + 1].todos # <<>> THEN Some(0) ELSE None
C19_NextPreviousPage ==
    Running("Normal") =>
        LET n == Len(app.pages)
            c == app.current_page_index
        IN  /\ C19_PageStep(next_page(app), (c + 1) % n)
            /\ C19_PageStep(previous_page(app), (c - 1 + n) % n)

\* C20: in every Normal-mode state whose current page has items, the edit key
\* moves to Editing mode with edit_mode true and the input buffer holding the
\* description of the selected item of the current page.
C20_StartEdit ==
    (Running("Normal") /\ todos(app) # <<>>) =>
        LET after == normal_e(app)
        IN  /\ after.input_mode = "Editing"
            /\ after.edit_mode
            /\ selected_in_bounds(app)
            /\ after.current_input = At(todos(app), app.state[1]).description

\* C21: in Editing mode with a non-empty buffer, show_page_selector false and
\* edit_mode false, Enter appends one item to the end of the current page, its
\* description the buffer as typed and completed false, leaves the items there
\* were as they are, clears the buffer and moves to Normal mode.
C21_Step ==
    (/\ Editing_Enter
     /\ app.current_input # <<>> /\ ~app.show_page_selector /\ ~app.edit_mode) =>
        LET ts == todos(app)
            n == Len(ts)
        IN  /\ pc' = "run"
            /\ Len(todos(app')) = n + 1
            /\ \A k \in 1..n : todos(app')[k] = ts[k]
            /\ todos(app')[n + 1].description = app.current_input
            /\ ~todos(app')[n + 1].completed
            /\ app'.current_input = <<>>
            /\ app'.input_mode = "Normal"
C21_EnterAppendsItem == [][C21_Step]_vars

\* A new item typed on a page that holds two items.
C21_Witness ==
    /\ Running("Editing") /\ app.current_input = <<"a">>
    /\ ~app.show_page_selector /\ ~app.edit_mode
    /\ Len(todos(app)) = 2 /\ TotalTodos(app.pages) = 2

\* C22: the item-level operations (add, delete, toggle, commit of an edit,
\* navigate, reorder in picking mode) leave the number and the order of the
\* pages and current_page_index as they are, and every page other than the
\* current one with its name and its items; the current page keeps its name.
C22_ItemStep ==
    \/ Normal_d \/ Normal_space \/ Normal_Down \/ Normal_Up
    \/ (Editing_Enter /\ enter_branch(app) \in {"add_todo", "update_todo"})
C22_Step ==
    C22_ItemStep =>
        /\ Len(app'.pages) = Len(app.pages)
        /\ app'.current_page_index = app.current_page_index
        /\ \A k \in 1..Len(app.pages) :
               /\ app'.pages[k].name = app.pages[k].name
               /\ k # app.current_page_index + 1 => app'.pages[k] = app.pages[k]
C22_OtherPagesKept == [][C22_Step]_vars

\* The second of two pages is current, both hold items, picking_mode is on.
C22_Witness ==
    /\ Running("Normal") /\ app.picking_mode
    /\ Len(app.pages) = 2 /\ app.current_page_index = 1
    /\ app.pages[1].todos # <<>> /\ Len(app.pages[2].todos) = 2
    /\ selected_in_bounds(app)

\* C23: in Normal mode on a page of n >= 1 items with the selection on an item
\* s, the toggle key flips the completed flag of the item at s and changes no
\* other item (with picking_mode off every item also keeps its place); the
\* selection becomes (s + 1) mod n if the flag went from false to true and
\* stays s if it went from true to false.
C23_Count(ts, x) == Cardinality({k \in 1..Len(ts) : ts[k] = x})
C23_SameItems(ts, us) ==
    /\ Len(ts) = Len(us)
    /\ \A k \in 1..Len(ts) : C23_Count(ts, ts[k]) = C23_Count(us, ts[k])
C23_Step ==
    (Normal_space /\ selected_in_bounds(app)) =>
        LET ts == todos(app)
            n == Len(ts)
            s == app.state[1]
            flipped == [ts EXCEPT ![s + 1].completed = ~@]
        IN  /\ pc' = "run"
            /\ C23_SameItems(flipped, todos(app'))
            /\ ~app.picking_mode => todos(app') = flipped
            /\ app'.state = IF ts[s + 1].completed THEN Some(s) ELSE Some((s + 1) % n)
            /\ (~ts[s + 1].completed) => At(todos(app'), IF app.picking_mode THEN (s + 1) % n ELSE s)
                                             = flipped[s + 1]
C23_ToggleFlipsSelected == [][C23_Step]_vars

\* The last of three items is selected and not completed, another is completed.
C23_Witness ==
    /\ Running("Normal")
    /\ Len(todos(app)) = 3 /\ app.state = Some(2)
    /\ ~todos(app)[3].completed /\ todos(app)[1].completed

\* C24: with picking_mode on, on a page of n >= 2 items with the selection on
\* an item, n presses of 'next' carry the selected item through every position
\* of the page once and bring the order of the items and the selection back to
\* where they were, no arrangement of different items occurring twice on the
\* way; and 'previous' right after 'next' restores the order and the selection.
RECURSIVE C24_NextTimes(_, _)
C24_NextTimes(a, k) == IF k = 0 THEN a ELSE next(C24_NextTimes(a, k - 1))
C24_PickingCycle ==
    (/\ Running("Normal") /\ app.picking_mode
     /\ Len(todos(app)) >= 2 /\ selected_in_bounds(app)) =>
        LET ts == todos(app)
            n == Len(ts)
            s == app.state[1]
            after(k) == C24_NextTimes(app, k)
        IN  /\ \A k \in 0..n : ~next_panics(after(k))
            /\ \A k \in 0..(n - 1) :
                   /\ after(k).state = Some((s + k) % n)
                   /\ At(todos(after(k)), (s + k) % n) = At(ts, s)
            /\ todos(after(n)) = ts
            /\ after(n).state = Some(s)
            /\ Distinct(ts) =>
                   \A j, k \in 0..(n - 1) : j # k => todos(after(j)) # todos(after(k))
            /\ ~previous_panics(next(app))
            /\ todos(previous(next(app))) = ts
            /\ previous(next(app)).state = Some(s)

\* Three different items, the second selected, picking_mode on.
C24_Witness ==
    /\ Running("Normal") /\ app.picking_mode /\ ~app.show_page_selector
    /\ Len(todos(app)) = 3 /\ Distinct(todos(app))
    /\ app.state = Some(1) /\ todos(app)[2].completed

\* C25: no sequence of keys makes the program index a Vec out of bounds: the
\* process never ends in a panic, also after a page was adopted in the page
\* selector while the item selection still refers to the page left.
C25_NoPanic == exit # "panic"

\* C26: in every state with mode Normal show_page_selector is false.
C26_NormalHidesSelector == Running("Normal") => ~app.show_page_selector

====
